---- MODULE Spec2Model ----
(***************************************************************************)
(* what-was-that: the Store (src/src/store.rs) and the command dispatch    *)
(* of main (src/src/main.rs).                                              *)
(*                                                                         *)
(* Text is a sequence of one-character strings.  A mapping                 *)
(* (HashMap<String, String>) is a function from a finite set of names to   *)
(* descriptions.  The backing file and its parent directory are the        *)
(* record fs.                                                              *)
(***************************************************************************)
EXTENDS Naturals, Sequences, FiniteSets, TLC

(***************************************************************************)
(* Bounds of the model.                                                    *)
(***************************************************************************)
\* how many I/O faults the environment injects in one behaviour
MaxFaults == 1
\* longest prefix a failed write leaves in the file
MaxPartial == 1
\* how many saves the two processes of a race start in one behaviour
MaxSaves == 2

Min(a, b) == IF a < b THEN a ELSE b

\* the names, descriptions and queries the calls draw from
Names == { <<"l", "s">>, <<"\n", "\"">> }
Descs == { <<"l", "s">>, <<"L", "\"">>, <<"S", "\\", "l">> }
Queries == { <<>>, <<"l">>, <<"L">>, <<"s", "l">> }

(***************************************************************************)
(* HashMap<String, String>                                                 *)
(***************************************************************************)
EmptyMap == << >>

\* HashMap::insert: the entry for k is added or overwritten
Insert(m, k, v) == [x \in (DOMAIN m) \cup {k} |-> IF x = k THEN v ELSE m[x]]

\* HashMap::remove
Remove(m, k) == [x \in (DOMAIN m) \ {k} |-> m[x]]

\* the orders in which HashMap::iter may visit the keys of m
Orders(m) ==
    { o \in [1..Cardinality(DOMAIN m) -> DOMAIN m] :
        \A i, j \in DOMAIN o : i # j => o[i] # o[j] }

(***************************************************************************)
(* serde_json::to_string(&HashMap<String, String>)                         *)
(***************************************************************************)
\* A character is a one-character string; a character that has no string
\* literal is the string "U+" followed by its four hexadecimal digits
\* ("U+0008" is the backspace), or by eight for a surrogate pair.
HexDigits ==
    {"0", "1", "2", "3", "4", "5", "6", "7", "8", "9", "a", "b", "c", "d", "e", "f"}

\* the control characters U+0000 to U+001F that have no string literal, each
\* with the two hexadecimal digits of its code
ControlCodes ==
    {
      <<"U+0000", "0", "0">>, <<"U+0001", "0", "1">>, <<"U+0002", "0", "2">>, <<"U+0003", "0", "3">>,
      <<"U+0004", "0", "4">>, <<"U+0005", "0", "5">>, <<"U+0006", "0", "6">>, <<"U+0007", "0", "7">>,
      <<"U+0008", "0", "8">>, <<"U+000b", "0", "b">>, <<"U+000e", "0", "e">>, <<"U+000f", "0", "f">>,
      <<"U+0010", "1", "0">>, <<"U+0011", "1", "1">>, <<"U+0012", "1", "2">>, <<"U+0013", "1", "3">>,
      <<"U+0014", "1", "4">>, <<"U+0015", "1", "5">>, <<"U+0016", "1", "6">>, <<"U+0017", "1", "7">>,
      <<"U+0018", "1", "8">>, <<"U+0019", "1", "9">>, <<"U+001a", "1", "a">>, <<"U+001b", "1", "b">>,
      <<"U+001c", "1", "c">>, <<"U+001d", "1", "d">>, <<"U+001e", "1", "e">>, <<"U+001f", "1", "f">>
    }

ControlTokens == { c[1] : c \in ControlCodes }

\* an encoder that escapes nothing
EscapeChar_none(c) == <<c>>

\* serde_json's escape of one character inside a string
EscapeChar(c) ==
    CASE c = "\"" -> <<"\\", "\"">>
      [] c = "\\" -> <<"\\", "\\">>
      [] c = "U+0008" -> <<"\\", "b">>
      [] c = "\f" -> <<"\\", "f">>
      [] c = "\n" -> <<"\\", "n">>
      [] c = "\r" -> <<"\\", "r">>
      [] c = "\t" -> <<"\\", "t">>
      [] \E x \in ControlCodes : x[1] = c ->
            CHOOSE e \in { <<"\\", "u", "0", "0", x[2], x[3]>> :
                             x \in { y \in ControlCodes : y[1] = c } } : TRUE
      [] OTHER -> <<c>>

RECURSIVE EscapeStr(_)
EscapeStr(s) ==
    IF s = <<>> THEN <<>> ELSE EscapeChar(Head(s)) \o EscapeStr(Tail(s))

Quote(s) == <<"\"">> \o EscapeStr(s) \o <<"\"">>

RECURSIVE EncodeEntries(_, _)
EncodeEntries(m, ord) ==
    IF ord = <<>> THEN <<>>
    ELSE Quote(Head(ord)) \o <<":">> \o Quote(m[Head(ord)])
         \o (IF Tail(ord) = <<>> THEN <<>> ELSE <<",">>)
         \o EncodeEntries(m, Tail(ord))

\* the JSON text of m when its entries are visited in the order ord
Encode(m, ord) == <<"{">> \o EncodeEntries(m, ord) \o <<"}">>

(***************************************************************************)
(* serde_json::from_str::<HashMap<String, String>>                         *)
(***************************************************************************)
IsWs(c) == c \in {" ", "\n", "\t", "\r"}

RECURSIVE SkipWs(_, _)
SkipWs(s, i) == IF i <= Len(s) /\ IsWs(s[i]) THEN SkipWs(s, i + 1) ELSE i

\* the character a two-character escape \c stands for; "" when serde_json
\* rejects it (\u is read by ParseStrBody)
Unescape(c) ==
    CASE c = "\"" -> "\""
      [] c = "\\" -> "\\"
      [] c = "/" -> "/"
      [] c = "b" -> "U+0008"
      [] c = "f" -> "\f"
      [] c = "n" -> "\n"
      [] c = "r" -> "\r"
      [] c = "t" -> "\t"
      [] OTHER -> ""

\* a hexadecimal digit in lower case; "" when c is not one
HexDigit(c) ==
    CASE c \in HexDigits -> c
      [] c = "A" -> "a" [] c = "B" -> "b" [] c = "C" -> "c"
      [] c = "D" -> "d" [] c = "E" -> "e" [] c = "F" -> "f"
      [] OTHER -> ""

\* the four hexadecimal digits at positions i..i+3, in lower case; <<>> when
\* they are not there
Hex4(s, i) ==
    IF i + 3 > Len(s) THEN <<>>
    ELSE IF \E j \in i..(i + 3) : HexDigit(s[j]) = "" THEN <<>>
    ELSE [j \in 1..4 |-> HexDigit(s[i + j - 1])]

\* four digits as one string
Str4(h) == h[1] \o h[2] \o h[3] \o h[4]

\* the code units that are characters with a string literal
Literals ==
    {
      <<"0020", " ">>, <<"0021", "!">>, <<"0022", "\"">>, <<"0023", "#">>,
      <<"0024", "$">>, <<"0025", "%">>, <<"0026", "&">>, <<"0027", "'">>,
      <<"0028", "(">>, <<"0029", ")">>, <<"002a", "*">>, <<"002b", "+">>,
      <<"002c", ",">>, <<"002d", "-">>, <<"002e", ".">>, <<"002f", "/">>,
      <<"0030", "0">>, <<"0031", "1">>, <<"0032", "2">>, <<"0033", "3">>,
      <<"0034", "4">>, <<"0035", "5">>, <<"0036", "6">>, <<"0037", "7">>,
      <<"0038", "8">>, <<"0039", "9">>, <<"003a", ":">>, <<"003b", ";">>,
      <<"003c", "<">>, <<"003d", "=">>, <<"003e", ">">>, <<"003f", "?">>,
      <<"0040", "@">>, <<"0041", "A">>, <<"0042", "B">>, <<"0043", "C">>,
      <<"0044", "D">>, <<"0045", "E">>, <<"0046", "F">>, <<"0047", "G">>,
      <<"0048", "H">>, <<"0049", "I">>, <<"004a", "J">>, <<"004b", "K">>,
      <<"004c", "L">>, <<"004d", "M">>, <<"004e", "N">>, <<"004f", "O">>,
      <<"0050", "P">>, <<"0051", "Q">>, <<"0052", "R">>, <<"0053", "S">>,
      <<"0054", "T">>, <<"0055", "U">>, <<"0056", "V">>, <<"0057", "W">>,
      <<"0058", "X">>, <<"0059", "Y">>, <<"005a", "Z">>, <<"005b", "[">>,
      <<"005c", "\\">>, <<"005d", "]">>, <<"005e", "^">>, <<"005f", "_">>,
      <<"0061", "a">>, <<"0062", "b">>, <<"0063", "c">>,
      <<"0064", "d">>, <<"0065", "e">>, <<"0066", "f">>, <<"0067", "g">>,
      <<"0068", "h">>, <<"0069", "i">>, <<"006a", "j">>, <<"006b", "k">>,
      <<"006c", "l">>, <<"006d", "m">>, <<"006e", "n">>, <<"006f", "o">>,
      <<"0070", "p">>, <<"0071", "q">>, <<"0072", "r">>, <<"0073", "s">>,
      <<"0074", "t">>, <<"0075", "u">>, <<"0076", "v">>, <<"0077", "w">>,
      <<"0078", "x">>, <<"0079", "y">>, <<"007a", "z">>, <<"007b", "{">>,
      <<"007c", "|">>, <<"007d", "}">>, <<"007e", "~">>, <<"0009", "\t">>,
      <<"000a", "\n">>, <<"000c", "\f">>, <<"000d", "\r">>
    }

\* the character of the code unit h (four digits as one string, not a
\* surrogate)
CodeChar(h) ==
    CHOOSE c \in { IF hits = {} THEN "U+" \o h ELSE (CHOOSE l \in hits : TRUE)[2] :
                     hits \in {{ l \in Literals : l[1] = h }} } : TRUE

\* the digits h are the first (lead) or the second (trail) half of a
\* surrogate pair
IsLead(h) == h[1] = "d" /\ h[2] \in {"8", "9", "a", "b"}
IsTrail(h) == h[1] = "d" /\ h[2] \in {"c", "d", "e", "f"}

\* the escape \uXXXX whose digits h start at position i: the character and
\* the position after it; a surrogate must be a lead followed by \u and a
\* trail, whose digits are t
DecodeHex(s, i, h, t) ==
    IF h = <<>> THEN [ok |-> FALSE, char |-> "", next |-> i]
    ELSE IF IsTrail(h) THEN [ok |-> FALSE, char |-> "", next |-> i]
    ELSE IF IsLead(h) THEN
        IF /\ i + 5 <= Len(s) /\ s[i + 4] = "\\" /\ s[i + 5] = "u"
           /\ t # <<>> /\ IsTrail(t)
        THEN [ok |-> TRUE, char |-> "U+" \o Str4(h) \o Str4(t), next |-> i + 10]
        ELSE [ok |-> FALSE, char |-> "", next |-> i]
    ELSE [ok |-> TRUE, char |-> CodeChar(Str4(h)), next |-> i + 4]

ParseUnicode(s, i) == DecodeHex(s, i, Hex4(s, i), Hex4(s, i + 6))

\* the rest of a string literal, from position i (after the opening quote);
\* acc is the text read so far
RECURSIVE ParseStrBody(_, _, _)
ParseStrBody(s, i, acc) ==
    IF i > Len(s) THEN [ok |-> FALSE, val |-> <<>>, next |-> i]
    ELSE IF s[i] = "\"" THEN [ok |-> TRUE, val |-> acc, next |-> i + 1]
    ELSE IF s[i] = "\\" THEN
        IF i + 1 > Len(s) THEN [ok |-> FALSE, val |-> <<>>, next |-> i]
        ELSE IF s[i + 1] = "u" THEN
            CHOOSE r \in { IF u.ok
                            THEN ParseStrBody(s, u.next, Append(acc, u.char))
                            ELSE [ok |-> FALSE, val |-> <<>>, next |-> i] :
                            u \in {ParseUnicode(s, i + 2)} } : TRUE
        ELSE IF Unescape(s[i + 1]) = ""
        THEN [ok |-> FALSE, val |-> <<>>, next |-> i]
        ELSE ParseStrBody(s, i + 2, Append(acc, Unescape(s[i + 1])))
    ELSE IF s[i] \in {"\n", "\t", "\r", "\f"} \cup ControlTokens
        THEN [ok |-> FALSE, val |-> <<>>, next |-> i]
    ELSE ParseStrBody(s, i + 1, Append(acc, s[i]))

\* a string literal at position i
ParseStr(s, i) ==
    IF i <= Len(s) /\ s[i] = "\"" THEN ParseStrBody(s, i + 1, <<>>)
    ELSE [ok |-> FALSE, val |-> <<>>, next |-> i]

\* the members of an object from position i (at a key), in the order of the
\* text; acc holds the pairs read so far
RECURSIVE ParseMembers(_, _, _)
ParseMembers(s, i, acc) ==
    LET k == ParseStr(s, i)
        c == SkipWs(s, k.next)
        v == ParseStr(s, SkipWs(s, c + 1))
        e == SkipWs(s, v.next)
        bad == [ok |-> FALSE, pairs |-> <<>>, next |-> i]
    IN  IF ~k.ok THEN bad
        ELSE IF ~(c <= Len(s) /\ s[c] = ":") THEN bad
        ELSE IF ~v.ok THEN bad
        ELSE IF e > Len(s) THEN bad
        ELSE IF s[e] = "}" THEN
            [ok |-> TRUE, pairs |-> Append(acc, <<k.val, v.val>>), next |-> e + 1]
        ELSE IF s[e] = "," THEN
            ParseMembers(s, SkipWs(s, e + 1), Append(acc, <<k.val, v.val>>))
        ELSE bad

\* the whole text as one JSON object: its members, in order
Members(s) ==
    LET b == SkipWs(s, 1)
        f == SkipWs(s, b + 1)
        bad == [ok |-> FALSE, pairs |-> <<>>]
    IN  IF ~(b <= Len(s) /\ s[b] = "{") THEN bad
        ELSE IF f <= Len(s) /\ s[f] = "}" THEN
            IF SkipWs(s, f + 1) > Len(s)
            THEN [ok |-> TRUE, pairs |-> <<>>] ELSE bad
        ELSE
            LET r == ParseMembers(s, f, <<>>)
            IN  IF r.ok /\ SkipWs(s, r.next) > Len(s)
                THEN [ok |-> TRUE, pairs |-> r.pairs] ELSE bad

\* the HashMap visitor: every member is inserted, a repeated key overwrites
RECURSIVE FromPairs(_, _)
FromPairs(m, pairs) ==
    IF pairs = <<>> THEN m
    ELSE FromPairs(Insert(m, Head(pairs)[1], Head(pairs)[2]), Tail(pairs))

\* the text decoded to a HashMap<String, String>
Decode(s) ==
    LET r == Members(s)
    IN  [ok |-> r.ok, map |-> FromPairs(EmptyMap, r.pairs)]

(***************************************************************************)
(* SkimMatcherV2::default().fuzzy_match(choice, pattern)                   *)
(***************************************************************************)
IsUpper(c) == c \in {"L", "S", "C"}

ToLower(c) ==
    CASE c = "L" -> "l" [] c = "S" -> "s" [] c = "C" -> "c" [] OTHER -> c

\* smart case: the match respects case only if the pattern has an upper case
\* letter
CaseSensitive(pattern) == \E i \in DOMAIN pattern : IsUpper(pattern[i])

CharEqual(a, b, cs) == IF cs THEN a = b ELSE ToLower(a) = ToLower(b)

\* the pattern's characters occur in choice in order (greedy left to right)
RECURSIVE CheapMatches(_, _, _)
CheapMatches(choice, pattern, cs) ==
    IF pattern = <<>> THEN TRUE
    ELSE IF choice = <<>> THEN FALSE
    ELSE IF CharEqual(Head(choice), Head(pattern), cs)
        THEN CheapMatches(Tail(choice), Tail(pattern), cs)
    ELSE CheapMatches(Tail(choice), pattern, cs)

\* TRUE when fuzzy_match returns Some(score)
FuzzyMatch(choice, pattern) ==
    IF pattern = <<>> THEN TRUE
    ELSE CheapMatches(choice, pattern, CaseSensitive(pattern))

(***************************************************************************)
(* State.                                                                  *)
(*   fs     the store path on disk: dir (the parent directory exists),     *)
(*          exists (the file exists), content (its text)                   *)
(*   pc     per process: "idle" (no Store) or "ready" (a Store exists);    *)
(*          where the steps of a call are taken one by one, the system     *)
(*          call the process makes next: "mkdir", "stat", "create",        *)
(*          "open", "fstat", "read" (inside load) or "write" (inside save) *)
(*   store  per process: Store.store, the in-memory mapping                *)
(*   res    per process: its latest Store call and how it returned         *)
(*   run    per process: the outcome of its latest run of main             *)
(*   faults how many I/O faults the environment has injected               *)
(*   onlySets, expected   history: the file started absent or empty and    *)
(*          every mutation so far was a successful set; the last-write-    *)
(*          wins mapping of those sets                                     *)
(*   wr     per process, while it is inside fs::write: the text it writes, *)
(*          how much of it is written, and a history flag: alone (no       *)
(*          other process has changed the file since this one opened it)   *)
(*   rd     per process, while it is inside read_to_string: the text read  *)
(*          so far (buf), the capacity of the String it is read into (cap) *)
(*          and the capacity reserved from the size of the file (start)    *)
(*   hist   history: stats, how many loads had the stat of                 *)
(*          store_path.exists() fail on an existing file; opened, how many *)
(*          saves have opened the file; last, the process whose save       *)
(*          opened it latest; per process, fresh (its Store was loaded     *)
(*          before any save opened the file) and saves (how many saves its *)
(*          Store has started, 2 standing for more than one)               *)
(***************************************************************************)
VARIABLES fs, pc, store, res, run, faults, onlySets, expected, wr, rd, hist

vars == <<fs, pc, store, res, run, faults, onlySets, expected, wr, rd, hist>>

AllProcs == {1, 2}
\* the processes of a single-process run
Procs == {1}

\* A Store call and its return value.  op: the method; key, value: its
\* arguments (key is the query of find); status: "ok" or the StoreError
\* variant ("io", "json", "notfound") with its payload arg, "running" while
\* the call has not returned, or "crash" when the process was killed inside
\* the call; found: what find returned; again: the call is a set that
\* repeats the successful set just before it.
Result(op, key, value, status, arg, found, again) ==
    [op |-> op, key |-> key, value |-> value, status |-> status, arg |-> arg,
     found |-> found, again |-> again]

NoRes == Result("none", <<>>, <<>>, "ok", <<>>, <<>>, FALSE)

NoRun == [cmd |-> "none", path |-> "none", code |-> 0,
          stderr |-> <<>>, stdout |-> <<>>]

NoWr == [text |-> <<>>, off |-> 0, alone |-> TRUE]

NoRd == [buf |-> <<>>, cap |-> 0, start |-> 0]

NoHist == [stats |-> 0, opened |-> 0, last |-> 0,
           fresh |-> [p \in AllProcs |-> FALSE],
           saves |-> [p \in AllProcs |-> 0]]

(***************************************************************************)
(* Store                                                                   *)
(***************************************************************************)
\* An I/O fault is named by the call that fails: "mkdir" (create_dir_all),
\* "stat" (the metadata call inside self.store_path.exists()), "create"
\* (File::create), "read" (read_to_string), "open" and "write" (the two
\* halves of fs::write).  The name alone is an error of any kind but
\* NotFound; with "-notfound" the error's kind is ErrorKind::NotFound.
Call(fault) ==
    CASE fault = "mkdir-notfound" -> "mkdir"
      [] fault = "create-notfound" -> "create"
      [] fault = "read-notfound" -> "read"
      [] fault = "open-notfound" -> "open"
      [] OTHER -> fault

NotFound(fault) ==
    fault \in {"mkdir-notfound", "create-notfound", "read-notfound", "open-notfound"}

\* the I/O faults that can hit load on this disk.  Path::exists answers
\* false when its stat fails; on an absent file that is the answer it gives
\* anyway, so the fault is drawn on an existing file only.
LoadFaults(f) ==
    {"none", "read", "read-notfound"}
        \cup (IF ~f.dir THEN {"mkdir", "mkdir-notfound"} ELSE {})
        \cup (IF f.exists THEN {"stat"} ELSE {})
        \cup (IF ~f.exists THEN {"create", "create-notfound"} ELSE {})

\* an open that leaves the text of the file alone
Truncate_keep(f) == [f EXCEPT !.exists = TRUE]

\* File::create, and the open of fs::write: the file exists and is empty
Truncate(f) == [f EXCEPT !.exists = TRUE, !.content = <<>>]

\* what self.store_path.exists() answers: false also when the stat fails
Exists(f, fault) == f.exists /\ Call(fault) # "stat"

\* the loop of load: every decoded pair is inserted into self.store
InsertAll(m, d) ==
    [x \in (DOMAIN m) \cup (DOMAIN d) |-> IF x \in DOMAIN d THEN d[x] ELSE m[x]]

\* load without the early return on an empty file
load_always_parse(m, f, fault) ==
    LET f1 == [f EXCEPT !.dir = TRUE]
        f2 == IF Exists(f, fault) THEN f1 ELSE Truncate(f1)
        io == [status |-> "io", arg |-> <<fault>>, store |-> m, fs |-> f]
    IN  IF ~f.dir /\ Call(fault) = "mkdir" THEN io
        ELSE IF ~Exists(f, fault) /\ Call(fault) = "create" THEN [io EXCEPT !.fs = f1]
        ELSE IF Call(fault) = "read" THEN [io EXCEPT !.fs = f2]
        ELSE IF ~Decode(f2.content).ok THEN
            [status |-> "json", arg |-> <<"decode">>, store |-> m, fs |-> f2]
        ELSE
            [status |-> "ok", arg |-> <<>>,
             store |-> InsertAll(m, Decode(f2.content).map), fs |-> f2]

\* Store::load on the mapping m; fault names the step that fails, if any.
\* When exists() answers false, File::create runs: it creates the file, and
\* empties one that is there.
load(m, f, fault) ==
    LET f1 == [f EXCEPT !.dir = TRUE]
        f2 == IF Exists(f, fault) THEN f1 ELSE Truncate(f1)
        io == [status |-> "io", arg |-> <<fault>>, store |-> m, fs |-> f]
    IN  IF ~f.dir /\ Call(fault) = "mkdir" THEN io
        ELSE IF ~Exists(f, fault) /\ Call(fault) = "create" THEN [io EXCEPT !.fs = f1]
        ELSE IF Call(fault) = "read" THEN [io EXCEPT !.fs = f2]
        ELSE IF f2.content = <<>> THEN
            [status |-> "ok", arg |-> <<>>, store |-> m, fs |-> f2]
        ELSE IF ~Decode(f2.content).ok THEN
            [status |-> "json", arg |-> <<"decode">>, store |-> m, fs |-> f2]
        ELSE
            [status |-> "ok", arg |-> <<>>,
             store |-> InsertAll(m, Decode(f2.content).map), fs |-> f2]

\* Store::new
new(f, fault) == load(EmptyMap, f, fault)

\* save that reports success without writing
save_noop(m, f, ord, fault, n) ==
    IF fault = "none" THEN [status |-> "ok", arg |-> <<>>, fs |-> f]
    ELSE [status |-> "io", arg |-> <<fault>>, fs |-> f]

\* Store::save; ord is the order HashMap::iter yields, fault the step of
\* fs::write that fails, n how much a failed write has written
save(m, f, ord, fault, n) ==
    LET text == Encode(m, ord)
    IN  IF Call(fault) = "open" THEN [status |-> "io", arg |-> <<fault>>, fs |-> f]
        ELSE IF Call(fault) = "write" THEN
            [status |-> "io", arg |-> <<fault>>,
             fs |-> [f EXCEPT !.exists = TRUE,
                              !.content = SubSeq(text, 1, Min(n, Len(text) - 1))]]
        ELSE [status |-> "ok", arg |-> <<>>,
              fs |-> [f EXCEPT !.exists = TRUE, !.content = text]]

\* set that keeps the description a name already has (entry().or_insert)
set_keep_old(m, f, key, value, ord, fault, n) ==
    LET m1 == IF key \in DOMAIN m THEN m ELSE Insert(m, key, value)
        s == save(m1, f, ord, fault, n)
    IN  [status |-> s.status, arg |-> s.arg, store |-> m1, fs |-> s.fs]

\* set that appends to the description a name already has
set_append(m, f, key, value, ord, fault, n) ==
    LET m1 == Insert(m, key, IF key \in DOMAIN m THEN m[key] \o value ELSE value)
        s == save(m1, f, ord, fault, n)
    IN  [status |-> s.status, arg |-> s.arg, store |-> m1, fs |-> s.fs]

\* set that undoes the insert when save fails
set_rollback(m, f, key, value, ord, fault, n) ==
    LET m1 == Insert(m, key, value)
        s == save(m1, f, ord, fault, n)
    IN  [status |-> s.status, arg |-> s.arg,
         store |-> IF s.status = "ok" THEN m1 ELSE m, fs |-> s.fs]

\* Store::set
set(m, f, key, value, ord, fault, n) ==
    LET m1 == Insert(m, key, value)
        s == save(m1, f, ord, fault, n)
    IN  [status |-> s.status, arg |-> s.arg, store |-> m1, fs |-> s.fs]

\* find that matches the query against the name instead of the description
RECURSIVE find_by_key(_, _, _)
find_by_key(m, description, ord) ==
    IF ord = <<>> THEN <<>>
    ELSE (IF FuzzyMatch(Head(ord), description)
          THEN << <<Head(ord), m[Head(ord)]>> >> ELSE <<>>)
         \o find_by_key(m, description, Tail(ord))

\* find that returns at its first match
RECURSIVE find_first(_, _, _)
find_first(m, description, ord) ==
    IF ord = <<>> THEN <<>>
    ELSE IF FuzzyMatch(m[Head(ord)], description)
         THEN << <<Head(ord), m[Head(ord)]>> >>
         ELSE find_first(m, description, Tail(ord))

\* Store::find; ord is the order HashMap::iter yields
RECURSIVE find(_, _, _)
find(m, description, ord) ==
    IF ord = <<>> THEN <<>>
    ELSE (IF FuzzyMatch(m[Head(ord)], description)
          THEN << <<Head(ord), m[Head(ord)]>> >> ELSE <<>>)
         \o find(m, description, Tail(ord))

\* delete that forgets to save
delete_no_save(m, f, key, ord, fault, n) ==
    IF key \in DOMAIN m THEN
        [status |-> "ok", arg |-> <<>>, store |-> Remove(m, key), fs |-> f]
    ELSE [status |-> "notfound", arg |-> key, store |-> m, fs |-> f]

\* delete without the contains_key test: remove, save, Ok
delete_unchecked(m, f, key, ord, fault, n) ==
    LET m1 == Remove(m, key)
        s == save(m1, f, ord, fault, n)
    IN  [status |-> s.status, arg |-> s.arg, store |-> m1, fs |-> s.fs]

\* delete that clears the whole mapping
delete_clear(m, f, key, ord, fault, n) ==
    IF key \in DOMAIN m THEN
        LET s == save(EmptyMap, f, <<>>, fault, n)
        IN  [status |-> s.status, arg |-> s.arg, store |-> EmptyMap, fs |-> s.fs]
    ELSE [status |-> "notfound", arg |-> key, store |-> m, fs |-> f]

\* Store::delete
delete(m, f, key, ord, fault, n) ==
    IF key \in DOMAIN m THEN
        LET m1 == Remove(m, key)
            s == save(m1, f, ord, fault, n)
        IN  [status |-> s.status, arg |-> s.arg, store |-> m1, fs |-> s.fs]
    ELSE [status |-> "notfound", arg |-> key, store |-> m, fs |-> f]

(***************************************************************************)
(* Display for StoreError, and main                                        *)
(***************************************************************************)
\* impl fmt::Display for StoreError
Display(status, arg) ==
    CASE status = "io" /\ NotFound(arg[1]) -> <<"File not found">>
      [] status = "io" -> <<"IO error: ">> \o arg
      [] status = "json" -> <<"JSON error: ">> \o arg
      [] status = "notfound" -> <<"Application error: ", "Key not found: ">> \o arg
      [] OTHER -> <<>>

\* the find command printing the names only
RECURSIVE Lines_names(_)
Lines_names(found) ==
    IF found = <<>> THEN <<>>
    ELSE << Head(found)[1] >> \o Lines_names(Tail(found))

\* what the find command prints: one line per match
RECURSIVE Lines(_)
Lines(found) ==
    IF found = <<>> THEN <<>>
    ELSE << Head(found)[1] \o <<" -> ">> \o Head(found)[2] >> \o Lines(Tail(found))

\* the store path main resolves: the default is computed even when the
\* override is given, and get_config_dir panics without its variable
ResolvePath(env) ==
    IF ~env.home THEN "panic"
    ELSE IF env.override THEN "override" ELSE "default"

\* util::print_and_exit
print_and_exit(cmd, path, msg) ==
    [cmd |-> cmd, path |-> path, code |-> 1, stderr |-> msg, stdout |-> <<>>]

\* main returning normally
exit_ok(cmd, path, out) ==
    [cmd |-> cmd, path |-> path, code |-> 0, stderr |-> <<>>, stdout |-> out]

\* the environment of a run: override (WWT_STORE_PATH is set) and home (the
\* variable get_config_dir reads is set).  fs is the file at the overriding
\* path, so every run of the model sets the override.
Envs == [override : {TRUE}, home : BOOLEAN]

Cmds ==
    { [name |-> "remember", a |-> k, b |-> v] : k \in Names, v \in Descs }
    \cup { [name |-> "find", a |-> q, b |-> <<>>] : q \in Queries }
    \cup { [name |-> "forget", a |-> k, b |-> <<>>] : k \in Names }

\* main that runs the command whether or not the Store was constructed
dispatch_no_check(l, path, cmd, ord, sf, n) ==
    IF cmd.name = "remember" THEN
        LET r == set(l.store, l.fs, cmd.a, cmd.b, ord, sf, n)
        IN  [fs |-> r.fs,
             res |-> Result("set", cmd.a, cmd.b, r.status, r.arg, <<>>, FALSE),
             run |-> IF r.status = "ok" THEN exit_ok(cmd.name, path, <<>>)
                     ELSE print_and_exit(cmd.name, path,
                                         Display(r.status, r.arg))]
    ELSE IF cmd.name = "find" THEN
        LET matches == find(l.store, cmd.a, ord)
        IN  [fs |-> l.fs,
             res |-> Result("find", cmd.a, <<>>, "ok", <<>>, matches, FALSE),
             run |-> IF Len(matches) = 0
                     THEN print_and_exit(cmd.name, path, <<"No matches found.">>)
                     ELSE exit_ok(cmd.name, path, Lines(matches))]
    ELSE
        LET r == delete(l.store, l.fs, cmd.a, ord, sf, n)
        IN  [fs |-> r.fs,
             res |-> Result("delete", cmd.a, <<>>, r.status, r.arg, <<>>, FALSE),
             run |-> IF r.status = "ok" THEN exit_ok(cmd.name, path, <<>>)
                     ELSE print_and_exit(cmd.name, path,
                                         Display(r.status, r.arg))]

\* the body of main once the Store l is constructed: the error of the load,
\* or the match on the command
dispatch(l, path, cmd, ord, sf, n) ==
    IF l.status # "ok" THEN
        [fs |-> l.fs,
         res |-> Result("new", <<>>, <<>>, l.status, l.arg, <<>>, FALSE),
         run |-> print_and_exit(cmd.name, path, Display(l.status, l.arg))]
    ELSE IF cmd.name = "remember" THEN
        LET r == set(l.store, l.fs, cmd.a, cmd.b, ord, sf, n)
        IN  [fs |-> r.fs,
             res |-> Result("set", cmd.a, cmd.b, r.status, r.arg, <<>>, FALSE),
             run |-> IF r.status = "ok" THEN exit_ok(cmd.name, path, <<>>)
                     ELSE print_and_exit(cmd.name, path,
                                         Display(r.status, r.arg))]
    ELSE IF cmd.name = "find" THEN
        LET matches == find(l.store, cmd.a, ord)
        IN  [fs |-> l.fs,
             res |-> Result("find", cmd.a, <<>>, "ok", <<>>, matches, FALSE),
             run |-> IF Len(matches) = 0
                     THEN print_and_exit(cmd.name, path, <<"No matches found.">>)
                     ELSE exit_ok(cmd.name, path, Lines(matches))]
    ELSE
        LET r == delete(l.store, l.fs, cmd.a, ord, sf, n)
        IN  [fs |-> r.fs,
             res |-> Result("delete", cmd.a, <<>>, r.status, r.arg, <<>>, FALSE),
             run |-> IF r.status = "ok" THEN exit_ok(cmd.name, path, <<>>)
                     ELSE print_and_exit(cmd.name, path,
                                         Display(r.status, r.arg))]

\* fn main; lf, ord, sf, n are what the disk and the HashMap do in this run
main(f, env, cmd, lf, ord, sf, n) ==
    IF ResolvePath(env) = "panic" THEN
        [fs |-> f, res |-> NoRes,
         run |-> [cmd |-> cmd.name, path |-> "panic", code |-> 101,
                  stderr |-> <<"panic">>, stdout |-> <<>>]]
    ELSE
        CHOOSE out \in { dispatch(l, ResolvePath(env), cmd, ord, sf, n) :
                            l \in {new(f, lf)} } : TRUE

(***************************************************************************)
(* Initial states: the file is absent (with or without its directory),     *)
(* empty, a JSON object (with white space, a repeated key, or escapes), or *)
(* something else.                                                         *)
(***************************************************************************)
InitContents ==
    { <<>>,
      <<"{", "}">>,
      <<"{", " ", "\"", "l", "s", "\"", " ", ":", " ", "\"", "l", "s", "\"",
        " ", "}", "\n">>,
      <<"{", "\"", "l", "s", "\"", ":", "\"", "\"", ",",
        "\"", "l", "s", "\"", ":", "\"", "l", "s", "\"", "}">>,
      <<"{", "\"", "l", "s", "\"", ":", "\"", "\\", "u", "0", "0", "4", "C",
        "\\", "b", "\\", "u", "0", "0", "1", "F", "\"", "}">>,
      <<"{">>,
      <<"[", "]">>,
      <<"{", "\"", "l", "s", "\"", ":", "1", "}">> }

Init ==
    /\ fs \in { [dir |-> d, exists |-> FALSE, content |-> <<>>] : d \in BOOLEAN }
           \cup { [dir |-> TRUE, exists |-> TRUE, content |-> c] :
                    c \in InitContents }
    /\ pc = [p \in AllProcs |-> "idle"]
    /\ store = [p \in AllProcs |-> EmptyMap]
    /\ res = [p \in AllProcs |-> NoRes]
    /\ run = [p \in AllProcs |-> NoRun]
    /\ faults = 0
    /\ onlySets = (fs.content = <<>>)
    /\ expected = EmptyMap
    /\ wr = [p \in AllProcs |-> NoWr]
    /\ rd = [p \in AllProcs |-> NoRd]
    /\ hist = NoHist

\* the environment may inject the fault
MayFail(fault) == fault = "none" \/ faults < MaxFaults

Count(fault) == IF fault = "none" THEN 0 ELSE 1

\* the history after a load that the fault hit
StatHist(fault) ==
    [hist EXCEPT !.stats = IF fault = "stat" THEN hist.stats + 1 ELSE hist.stats]

\* how fs::write may end: the fault and what a failed write has written
SaveChoices ==
    {<<"none", 0>>, <<"open", 0>>, <<"open-notfound", 0>>}
        \cup { <<"write", n>> : n \in 0..MaxPartial }

\* the history after a call of set or delete
Hist(op, status, key, value) ==
    IF op = "set" /\ status = "ok" /\ onlySets
    THEN /\ onlySets' = TRUE
         /\ expected' = Insert(expected, key, value)
    ELSE /\ onlySets' = FALSE
         /\ expected' = EmptyMap

(***************************************************************************)
(* The Store's operations, called on process p's Store.                    *)
(***************************************************************************)
\* Store::new(path)
New(p) ==
    /\ pc[p] = "idle"
    /\ \E fault \in LoadFaults(fs) :
        /\ MayFail(fault)
        /\ \E r \in {new(fs, fault)} :
            /\ fs' = r.fs
            /\ pc' = [pc EXCEPT ![p] = IF r.status = "ok" THEN "ready" ELSE "idle"]
            /\ store' = [store EXCEPT ![p] = IF r.status = "ok" THEN r.store ELSE EmptyMap]
            /\ res' = [res EXCEPT ![p] =
                         Result("new", <<>>, <<>>, r.status, r.arg, <<>>, FALSE)]
        /\ faults' = faults + Count(fault)
        /\ hist' = StatHist(fault)
    /\ run' = [run EXCEPT ![p] = NoRun]
    /\ UNCHANGED <<onlySets, expected, wr, rd>>

\* store.set(key, value)
Set(p, key, value) ==
    /\ pc[p] = "ready"
    /\ \E c \in SaveChoices, ord \in Orders(Insert(store[p], key, value)) :
        /\ MayFail(c[1])
        /\ \E r \in {set(store[p], fs, key, value, ord, c[1], c[2])} :
            /\ fs' = r.fs
            /\ store' = [store EXCEPT ![p] = r.store]
            /\ res' = [res EXCEPT ![p] =
                         Result("set", key, value, r.status, r.arg, <<>>,
                                /\ res[p].op = "set"
                                /\ res[p].status = "ok"
                                /\ res[p].key = key
                                /\ res[p].value = value)]
            /\ Hist("set", r.status, key, value)
        /\ faults' = faults + Count(c[1])
    /\ UNCHANGED <<pc, run, wr, rd, hist>>

\* a find that takes &mut self and saves
FindSaving(p, description) ==
    /\ pc[p] = "ready"
    /\ \E ord \in Orders(store[p]) :
        /\ res' = [res EXCEPT ![p] =
                     Result("find", description, <<>>, "ok", <<>>,
                            find(store[p], description, ord), FALSE)]
        /\ fs' = save(store[p], fs, ord, "none", 0).fs
    /\ UNCHANGED <<pc, store, run, faults, onlySets, expected, wr, rd, hist>>

\* store.find(description)
Find(p, description) ==
    /\ pc[p] = "ready"
    /\ \E ord \in Orders(store[p]) :
        res' = [res EXCEPT ![p] =
                  Result("find", description, <<>>, "ok", <<>>,
                         find(store[p], description, ord), FALSE)]
    /\ UNCHANGED <<fs, pc, store, run, faults, onlySets, expected, wr, rd, hist>>

\* store.delete(key)
Delete(p, key) ==
    /\ pc[p] = "ready"
    /\ \E c \in IF key \in DOMAIN store[p] THEN SaveChoices ELSE {<<"none", 0>>},
          ord \in Orders(Remove(store[p], key)) :
        /\ MayFail(c[1])
        /\ \E r \in {delete(store[p], fs, key, ord, c[1], c[2])} :
            /\ fs' = r.fs
            /\ store' = [store EXCEPT ![p] = r.store]
            /\ res' = [res EXCEPT ![p] =
                         Result("delete", key, <<>>, r.status, r.arg, <<>>, FALSE)]
            /\ Hist("delete", r.status, key, <<>>)
        /\ faults' = faults + Count(c[1])
    /\ UNCHANGED <<pc, run, wr, rd, hist>>

\* the Store goes out of scope: nothing is flushed, and the result of its
\* latest call is gone with it
Drop(p) ==
    /\ pc[p] = "ready"
    /\ pc' = [pc EXCEPT ![p] = "idle"]
    /\ store' = [store EXCEPT ![p] = EmptyMap]
    /\ res' = [res EXCEPT ![p] = NoRes]
    /\ hist' = [hist EXCEPT !.fresh[p] = FALSE, !.saves[p] = 0]
    /\ UNCHANGED <<fs, run, faults, onlySets, expected, wr, rd>>

\* the mapping the command of main works on after its own change
Target(m, cmd) ==
    IF cmd.name = "remember" THEN Insert(m, cmd.a, cmd.b)
    ELSE IF cmd.name = "forget" THEN Remove(m, cmd.a)
    ELSE m

\* one run of the program, from the command line to the exit code
Main(p, env, cmd) ==
    /\ pc[p] = "idle"
    /\ \E lf \in IF ResolvePath(env) = "panic" THEN {"none"} ELSE LoadFaults(fs) :
        /\ MayFail(lf)
        /\ \E l \in {IF ResolvePath(env) = "panic"
                     THEN [status |-> "panic", arg |-> <<>>, store |-> EmptyMap,
                           fs |-> fs]
                     ELSE new(fs, lf)} :
            \E c \in IF /\ l.status = "ok"
                        /\ \/ cmd.name = "remember"
                           \/ cmd.name = "forget" /\ cmd.a \in DOMAIN l.store
                     THEN SaveChoices ELSE {<<"none", 0>>} :
                /\ faults + Count(lf) + Count(c[1]) <= MaxFaults
                /\ \E ord \in Orders(Target(l.store, cmd)) :
                    \E r \in {main(fs, env, cmd, lf, ord, c[1], c[2])} :
                        /\ fs' = r.fs
                        /\ res' = [res EXCEPT ![p] = r.res]
                        /\ run' = [run EXCEPT ![p] = r.run]
                        /\ IF r.res.op \in {"set", "delete"}
                           THEN Hist(r.res.op, r.res.status, cmd.a, cmd.b)
                           ELSE UNCHANGED <<onlySets, expected>>
                /\ faults' = faults + Count(lf) + Count(c[1])
        /\ hist' = StatHist(lf)
    /\ UNCHANGED <<pc, store, wr, rd>>

Next ==
    \E p \in Procs :
        \/ New(p)
        \/ \E k \in Names, v \in Descs : Set(p, k, v)
        \/ \E q \in Queries : Find(p, q)
        \/ \E k \in Names : Delete(p, k)
        \/ Drop(p)
        \/ \E env \in Envs, cmd \in Cmds : Main(p, env, cmd)

Spec == Init /\ [][Next]_vars

(***************************************************************************)
(* Two processes on one file, and crashes.  Both processes run the Store's *)
(* operations on the same path, and a step is one system call: load is the *)
(* directory check, create_dir_all when it is missing, the test that the   *)
(* file exists, File::create when it does not, and the open, the fstat and *)
(* the reads of read_to_string; save is the open of fs::write, which       *)
(* truncates the file, and its writes.  A process may be killed inside     *)
(* fs::write.                                                              *)
(* The file starts absent or empty, the disk does not fail, and the two    *)
(* processes start at most MaxSaves saves.                                 *)
(***************************************************************************)
\* a write that puts the whole text in the file whatever count it returns
WriteAt_all(content, text, off, n) == text

\* write(2) of n bytes of text at the offset off of the writer's descriptor,
\* on a file whose text is content: the bytes replace what is there, and a
\* gap between the end of the file and the offset reads as NUL
WriteAt(content, text, off, n) ==
    [i \in 1..(IF Len(content) > off + n THEN Len(content) ELSE off + n) |->
        IF i > off /\ i <= off + n THEN text[i]
        ELSE IF i <= Len(content) THEN content[i]
        ELSE "U+0000"]

\* how many bytes the next write of write_all may take: all that is left,
\* or, for the first write, a few of them (a short write)
WriteSizes(w) ==
    {Len(w.text) - w.off}
        \cup (IF w.off = 0 THEN 1..Min(MaxPartial, Len(w.text)) ELSE {})

\* wr after a step of process p that leaves the file with the text content:
\* a process inside fs::write is no longer alone when the file has changed
Others(p, content) ==
    [q \in AllProcs |->
        IF q # p /\ pc[q] = "write" /\ content # fs.content
        THEN [wr[q] EXCEPT !.alone = FALSE] ELSE wr[q]]

\* PROBE_SIZE of std::io::default_read_to_end: the size of the stack
\* buffer it reads into when the String is full, to find the end of the file
\* before it grows the String
ProbeSize == 32

\* the least capacity a Vec<u8> grows to (RawVec::MIN_NON_ZERO_CAP)
MinCap == 8

Max(a, b) == IF a > b THEN a ELSE b

\* RawVec::grow_amortized: the capacity a buffer of capacity cap holding len
\* bytes grows to, to take add more bytes
Grow(cap, len, add) == Max(MinCap, Max(2 * cap, len + add))

\* the next read of default_read_to_end goes into the probe buffer: the
\* String is full and still has the capacity reserved at the start
Probing(r) == Len(r.buf) = r.cap /\ r.cap = r.start

\* the capacity of the String at a read into its spare capacity:
\* try_reserve(PROBE_SIZE) first when it is full
Reserved(r) ==
    IF Len(r.buf) = r.cap THEN Grow(r.cap, Len(r.buf), ProbeSize) ELSE r.cap

\* how many bytes the next read of read_to_string returns on a file whose
\* text is content: what is left of the file from the offset of the
\* descriptor, as far as the probe buffer or the spare capacity of the
\* String has room
ReadSize(content, r) ==
    IF Len(content) <= Len(r.buf) THEN 0
    ELSE Min(Len(content) - Len(r.buf),
             IF Probing(r) THEN ProbeSize ELSE Reserved(r) - Len(r.buf))

\* the capacity of the String after that read returned n bytes: the bytes
\* of the probe buffer are appended with extend_from_slice, which grows the
\* full String
Capacity(r, n) ==
    IF Probing(r) THEN Grow(r.cap, Len(r.buf), n) ELSE Reserved(r)

\* Store::new calls load, and load: parent_dir.exists()
LoadDir(p) ==
    /\ pc[p] = "idle"
    /\ pc' = [pc EXCEPT ![p] = IF fs.dir THEN "stat" ELSE "mkdir"]
    /\ res' = [res EXCEPT ![p] =
                 Result("new", <<>>, <<>>, "running", <<>>, <<>>, FALSE)]
    /\ UNCHANGED <<fs, store, run, faults, onlySets, expected, wr, rd, hist>>

\* load: create_dir_all, after the directory was seen absent
LoadMkdir(p) ==
    /\ pc[p] = "mkdir"
    /\ pc' = [pc EXCEPT ![p] = "stat"]
    /\ fs' = [fs EXCEPT !.dir = TRUE]
    /\ UNCHANGED <<store, res, run, faults, onlySets, expected, wr, rd, hist>>

\* load: self.store_path.exists()
LoadExists(p) ==
    /\ pc[p] = "stat"
    /\ pc' = [pc EXCEPT ![p] = IF fs.exists THEN "open" ELSE "create"]
    /\ UNCHANGED <<fs, store, res, run, faults, onlySets, expected, wr, rd, hist>>

\* load: File::create, after the file was seen absent
LoadCreate(p) ==
    /\ pc[p] = "create"
    /\ pc' = [pc EXCEPT ![p] = "open"]
    /\ fs' = Truncate(fs)
    /\ wr' = Others(p, fs'.content)
    /\ UNCHANGED <<store, res, run, faults, onlySets, expected, rd, hist>>

\* load: read_to_string opens the file
LoadOpen(p) ==
    /\ pc[p] = "open"
    /\ pc' = [pc EXCEPT ![p] = "fstat"]
    /\ rd' = [rd EXCEPT ![p] = NoRd]
    /\ UNCHANGED <<fs, store, res, run, faults, onlySets, expected, wr, hist>>

\* load: read_to_string reserves a buffer of the size of the file
LoadStat(p) ==
    /\ pc[p] = "fstat"
    /\ pc' = [pc EXCEPT ![p] = "read"]
    /\ rd' = [rd EXCEPT ![p].cap = Len(fs.content), ![p].start = Len(fs.content)]
    /\ UNCHANGED <<fs, store, res, run, faults, onlySets, expected, wr, hist>>

\* load: one read of read_to_string; after the read that returns nothing,
\* the decoding of the text read and the inserts, and Store::new returns
LoadRead(p) ==
    /\ pc[p] = "read"
    /\ \E n \in {ReadSize(fs.content, rd[p])} :
        IF n > 0
        THEN /\ rd' = [rd EXCEPT ![p].buf =
                         rd[p].buf \o SubSeq(fs.content, Len(rd[p].buf) + 1,
                                             Len(rd[p].buf) + n),
                                 ![p].cap = Capacity(rd[p], n)]
             /\ UNCHANGED <<pc, store, res, hist>>
        ELSE /\ \E r \in {new([fs EXCEPT !.content = rd[p].buf], "none")} :
                /\ pc' = [pc EXCEPT ![p] =
                            IF r.status = "ok" THEN "ready" ELSE "idle"]
                /\ store' = [store EXCEPT ![p] =
                               IF r.status = "ok" THEN r.store ELSE EmptyMap]
                /\ res' = [res EXCEPT ![p] =
                             Result("new", <<>>, <<>>, r.status, r.arg, <<>>, FALSE)]
                /\ hist' = [hist EXCEPT
                              !.fresh[p] = r.status = "ok" /\ hist.opened = 0,
                              !.saves[p] = 0]
             /\ rd' = [rd EXCEPT ![p] = NoRd]
    /\ UNCHANGED <<fs, run, faults, onlySets, expected, wr>>

\* the history after process p has opened the file for a save
SaveHist(p) ==
    [hist EXCEPT !.opened = hist.opened + 1, !.last = p,
                 !.saves[p] = Min(hist.saves[p] + 1, 2)]

\* set: the insert, to_string, and the open of fs::write
SetOpen(p, key, value) ==
    /\ pc[p] = "ready"
    /\ hist.opened < MaxSaves
    /\ pc' = [pc EXCEPT ![p] = "write"]
    /\ store' = [store EXCEPT ![p] = Insert(store[p], key, value)]
    /\ fs' = Truncate(fs)
    /\ \E ord \in Orders(Insert(store[p], key, value)) :
        wr' = [Others(p, fs'.content) EXCEPT ![p] =
                 [text |-> Encode(Insert(store[p], key, value), ord),
                  off |-> 0, alone |-> TRUE]]
    /\ res' = [res EXCEPT ![p] =
                 Result("set", key, value, "running", <<>>, <<>>, FALSE)]
    /\ hist' = SaveHist(p)
    /\ UNCHANGED <<run, faults, onlySets, expected, rd>>

\* delete: KeyNotFound, or the remove, to_string, and the open of fs::write
DeleteOpen(p, key) ==
    /\ pc[p] = "ready"
    /\ IF key \in DOMAIN store[p]
       THEN /\ hist.opened < MaxSaves
            /\ pc' = [pc EXCEPT ![p] = "write"]
            /\ store' = [store EXCEPT ![p] = Remove(store[p], key)]
            /\ fs' = Truncate(fs)
            /\ \E ord \in Orders(Remove(store[p], key)) :
                wr' = [Others(p, fs'.content) EXCEPT ![p] =
                         [text |-> Encode(Remove(store[p], key), ord),
                          off |-> 0, alone |-> TRUE]]
            /\ res' = [res EXCEPT ![p] =
                         Result("delete", key, <<>>, "running", <<>>, <<>>, FALSE)]
            /\ hist' = SaveHist(p)
            /\ UNCHANGED <<onlySets, expected>>
       ELSE /\ res' = [res EXCEPT ![p] =
                         Result("delete", key, <<>>, "notfound", key, <<>>, FALSE)]
            /\ Hist("delete", "notfound", key, <<>>)
            /\ UNCHANGED <<fs, pc, store, wr, hist>>
    /\ UNCHANGED <<run, faults, rd>>

\* fs::write: one write of write_all; after the last one save returns Ok
Write(p) ==
    /\ pc[p] = "write"
    /\ \E n \in WriteSizes(wr[p]) :
        /\ fs' = [fs EXCEPT !.content = WriteAt(fs.content, wr[p].text, wr[p].off, n)]
        /\ IF wr[p].off + n = Len(wr[p].text)
           THEN /\ pc' = [pc EXCEPT ![p] = "ready"]
                /\ res' = [res EXCEPT ![p].status = "ok"]
                /\ wr' = [Others(p, fs'.content) EXCEPT ![p] = NoWr]
                /\ Hist(res[p].op, "ok", res[p].key, res[p].value)
           ELSE /\ wr' = [Others(p, fs'.content) EXCEPT ![p].off = wr[p].off + n]
                /\ UNCHANGED <<pc, res, onlySets, expected>>
    /\ UNCHANGED <<store, run, faults, rd, hist>>

\* process p is killed inside fs::write, after the file was opened: its
\* Store is gone, the call never returns
Crash(p) ==
    /\ pc[p] = "write"
    /\ pc' = [pc EXCEPT ![p] = "idle"]
    /\ store' = [store EXCEPT ![p] = EmptyMap]
    /\ res' = [res EXCEPT ![p].status = "crash"]
    /\ wr' = [wr EXCEPT ![p] = NoWr]
    /\ Hist(res[p].op, "crash", res[p].key, res[p].value)
    /\ hist' = [hist EXCEPT !.fresh[p] = FALSE, !.saves[p] = 0]
    /\ UNCHANGED <<fs, run, faults, rd>>

InitRace == Init /\ fs.content = <<>>

\* the description the two processes set, and the query they find
RaceDescs == { <<"l", "s">> }
RaceQueries == { <<"l">> }

NextRace ==
    \E p \in AllProcs :
        \/ LoadDir(p)
        \/ LoadMkdir(p)
        \/ LoadExists(p)
        \/ LoadCreate(p)
        \/ LoadOpen(p)
        \/ LoadStat(p)
        \/ LoadRead(p)
        \/ \E k \in Names, v \in RaceDescs : SetOpen(p, k, v)
        \/ \E k \in Names : DeleteOpen(p, k)
        \/ Write(p)
        \/ \E q \in RaceQueries : Find(p, q)
        \/ Drop(p)
        \/ Crash(p)

SpecRace == InitRace /\ [][NextRace]_vars

(***************************************************************************)
(* Vocabulary of the properties.                                           *)
(***************************************************************************)
\* the file's text is empty or a JSON object of string to string pairs
FileOk(f) == f.content = <<>> \/ Members(f.content).ok

\* the mapping the file holds: an empty file is the empty mapping
FileMap(f) == IF f.content = <<>> THEN EmptyMap ELSE Decode(f.content).map

\* process p's latest step was a call of the method op on its Ready Store
SetCall(p) ==
    /\ pc[p] = "ready" /\ pc'[p] = "ready"
    /\ res'[p].op = "set"
    /\ res'[p] # res[p] \/ store'[p] # store[p] \/ fs' # fs

DeleteCall(p) ==
    /\ pc[p] = "ready" /\ pc'[p] = "ready"
    /\ res'[p].op = "delete"
    /\ res'[p] # res[p]

FindCall(p) ==
    /\ pc[p] = "ready" /\ pc'[p] = "ready"
    /\ res'[p].op = "find"
    /\ res'[p] # res[p]

\* process p's step was Store::new, outside main
NewCall(p) == pc[p] = "idle" /\ res'[p].op = "new" /\ run'[p] = NoRun

\* process p's step was a run of main
MainCall(p) == pc[p] = "idle" /\ run'[p] # NoRun

\* the load of this step had the stat of store_path.exists() fail on the
\* file, which File::create then emptied
StatFailed == hist'.stats # hist.stats

\* the text the load of this step leaves in the file and reads, and the
\* mapping it builds from it
LoadedText == IF StatFailed THEN <<>> ELSE fs.content

LoadedMap == IF StatFailed THEN EmptyMap ELSE FileMap(fs)

\* the text key occurs in the message msg
Contains(msg, key) ==
    \E i \in 0..(Len(msg) - Len(key)) : SubSeq(msg, i + 1, i + Len(key)) = key

(***************************************************************************)
(* C1 as the claim states it.  Round trip: starting from an absent or      *)
(* empty file, after any sequence of successful set calls, in one session  *)
(* or over successive sessions and runs of main, a Store constructed from  *)
(* the file holds exactly the last-write-wins mapping of those sets (and   *)
(* the construction does not fail to decode the file).  load takes a       *)
(* failed stat in store_path.exists() for an absent file and calls         *)
(* File::create, which empties the file: the construction returns Ok with  *)
(* the empty mapping and the pairs that were set are gone.                 *)
(***************************************************************************)
C1_RoundTrip ==
    \A p \in Procs :
        (onlySets /\ res[p].op = "new") =>
            /\ res[p].status # "json"
            /\ pc[p] = "ready" => store[p] = expected /\ FileMap(fs) = expected

(***************************************************************************)
(* C2.  In every state right after a set or delete call has returned Ok,   *)
(* the file exists, decodes, and the mapping decoded from it equals the    *)
(* Store's in-memory mapping.                                              *)
(***************************************************************************)
C2_ConsistentAfterSuccess ==
    \A p \in Procs :
        (pc[p] = "ready" /\ res[p].op \in {"set", "delete"} /\ res[p].status = "ok")
            => fs.exists /\ FileOk(fs) /\ FileMap(fs) = store[p]

C2_Witness ==
    /\ pc[1] = "ready" /\ res[1].op = "delete" /\ res[1].status = "ok"
    /\ store[1] # EmptyMap
    /\ FileMap(fs) = store[1]

(***************************************************************************)
(* C3.  delete(name) on a Ready Store whose mapping has no entry for name  *)
(* returns KeyNotFound carrying that name, writes nothing and leaves the   *)
(* mapping and the file as they were; a run of `forget name` whose load    *)
(* builds a mapping without an entry for name exits with code 1, its       *)
(* stderr message includes the name, and the delete leaves the file's text *)
(* as the load left it.                                                    *)
(***************************************************************************)
C3_DeleteAbsent ==
    [][\A p \in Procs :
        /\ (DeleteCall(p) /\ res'[p].key \notin DOMAIN store[p]) =>
              /\ res'[p].status = "notfound"
              /\ res'[p].arg = res'[p].key
              /\ fs' = fs
              /\ store' = store
        /\ (/\ MainCall(p)
            /\ run'[p].cmd = "forget"
            /\ res'[p].op = "delete"
            /\ res'[p].key \notin DOMAIN LoadedMap) =>
              /\ res'[p].status = "notfound"
              /\ res'[p].arg = res'[p].key
              /\ run'[p].code = 1
              /\ Contains(run'[p].stderr, res'[p].key)
              /\ fs'.content = LoadedText
      ]_vars

C3_Witness ==
    /\ pc[1] = "ready"
    /\ res[1].op = "delete" /\ res[1].status = "notfound"
    /\ res[1].arg = res[1].key
    /\ store[1] # EmptyMap /\ res[1].key \notin DOMAIN store[1]
    /\ FileMap(fs) = store[1]

(***************************************************************************)
(* C4.  delete(name) on a present name removes exactly that entry: when    *)
(* it returns Ok, name is absent from the mapping and from the file, and   *)
(* every other name keeps its description in both.  A find returns only    *)
(* entries of the mapping, and a name that is in no mapping and not in     *)
(* the file stays so until a set of that name: no find, in this session    *)
(* or after a re-load, returns it before.                                  *)
(***************************************************************************)
C4_DeletePresent ==
    [][/\ \A p \in Procs :
            (DeleteCall(p) /\ res'[p].status = "ok") =>
                LET k == res'[p].key
                IN  /\ k \in DOMAIN store[p]
                    /\ DOMAIN store'[p] = (DOMAIN store[p]) \ {k}
                    /\ \A x \in DOMAIN store'[p] : store'[p][x] = store[p][x]
                    /\ FileOk(fs')
                    /\ k \notin DOMAIN FileMap(fs')
                    /\ \A x \in DOMAIN store'[p] :
                          x \in DOMAIN FileMap(fs') /\ FileMap(fs')[x] = store[p][x]
       /\ \A p \in Procs :
            (res'[p].op = "find" /\ pc'[p] = "ready") =>
                \A i \in DOMAIN res'[p].found :
                    /\ res'[p].found[i][1] \in DOMAIN store'[p]
                    /\ res'[p].found[i][2] = store'[p][res'[p].found[i][1]]
       /\ \A k \in Names :
            (/\ \A p \in AllProcs : k \notin DOMAIN store[p]
             /\ k \notin DOMAIN FileMap(fs)) =>
                \/ /\ \A p \in AllProcs : k \notin DOMAIN store'[p]
                   /\ k \notin DOMAIN FileMap(fs')
                \/ \E p \in Procs : res'[p].op = "set" /\ res'[p].key = k
      ]_vars

C4_Witness ==
    /\ pc[1] = "ready"
    /\ res[1].op = "delete" /\ res[1].status = "ok"
    /\ Cardinality(DOMAIN store[1]) = 1
    /\ res[1].key \notin DOMAIN store[1]
    /\ res[1].key \notin DOMAIN FileMap(fs)
    /\ DOMAIN FileMap(fs) = DOMAIN store[1]

(***************************************************************************)
(* Find: the mapping a find result was computed on, while it can still be  *)
(* observed: the Ready Store's mapping, or the file's after `find` of main *)
(* (which loads it and does not change it).                                *)
(***************************************************************************)
FindDone(p) ==
    res[p].op = "find" /\ (pc[p] = "ready" \/ run[p].cmd = "find")

Searched(p) == IF pc[p] = "ready" THEN store[p] ELSE FileMap(fs)

Returned(p, k, v) == \E i \in DOMAIN res[p].found : res[p].found[i] = <<k, v>>

\* the characters of q occur in d in the same order, not necessarily
\* contiguously; fold says whether ASCII case is ignored
SameChar(a, b, fold) == IF fold THEN ToLower(a) = ToLower(b) ELSE a = b

IsSubsequence(q, d, fold) ==
    \E f \in [1..Len(q) -> 1..Len(d)] :
        /\ \A i, j \in 1..Len(q) : i < j => f[i] < f[j]
        /\ \A i \in 1..Len(q) : SameChar(q[i], d[f[i]], fold)

HasUpper(q) == \E i \in 1..Len(q) : q[i] \in {"L", "S", "C"}

\* C5 as the claim states it: returned iff q is a subsequence of the
\* description, character for character.  The matcher ignores case for a
\* query without upper case letters, so find("l") returns a description "L..."
C5_ExactSubsequence ==
    \A p \in Procs :
        FindDone(p) =>
            \A k \in DOMAIN Searched(p) :
                Returned(p, k, Searched(p)[k])
                    <=> IsSubsequence(res[p].key, Searched(p)[k], FALSE)

(***************************************************************************)
(* C5 (amended).  find(q) returns the pair (name, description) of a stored *)
(* entry if and only if the characters of q occur in the description in    *)
(* the same order, not necessarily contiguously, where characters are      *)
(* compared exactly if q has an upper case letter and ignoring ASCII case  *)
(* otherwise; every pair returned is an entry of the mapping.              *)
(***************************************************************************)
C5_SmartCaseSubsequence ==
    \A p \in Procs :
        FindDone(p) =>
            /\ \A k \in DOMAIN Searched(p) :
                Returned(p, k, Searched(p)[k])
                    <=> IsSubsequence(res[p].key, Searched(p)[k],
                                      ~HasUpper(res[p].key))
            /\ \A i \in DOMAIN res[p].found :
                /\ res[p].found[i][1] \in DOMAIN Searched(p)
                /\ res[p].found[i][2] = Searched(p)[res[p].found[i][1]]

\* a find with a match and a non-match in one store, the match by case folding
C5_Witness ==
    /\ FindDone(1) /\ pc[1] = "ready"
    /\ res[1].key = <<"s", "l">>
    /\ Len(res[1].found) = 1
    /\ Cardinality(DOMAIN store[1]) = 2
    /\ res[1].found[1][2] = <<"S", "\\", "l">>

(***************************************************************************)
(* C6.  find with the empty query returns every stored entry exactly once: *)
(* the result has as many pairs as the mapping has names, and each         *)
(* (name, description) of the mapping is in it.                            *)
(***************************************************************************)
C6_FindEmptyQuery ==
    \A p \in Procs :
        (FindDone(p) /\ res[p].key = <<>>) =>
            /\ Len(res[p].found) = Cardinality(DOMAIN Searched(p))
            /\ \A k \in DOMAIN Searched(p) : Returned(p, k, Searched(p)[k])

C6_Witness ==
    /\ FindDone(1) /\ pc[1] = "ready"
    /\ res[1].key = <<>>
    /\ Cardinality(DOMAIN store[1]) = 2
    /\ Len(res[1].found) = 2
    /\ res[1].found[1] # res[1].found[2]

(***************************************************************************)
(* C7.  find is read-only: a find call on a Ready Store leaves the         *)
(* in-memory mapping and the file as they were, whether or not anything    *)
(* matched; the find of a run of `find` leaves the file's text as the load *)
(* of the run left it.                                                     *)
(***************************************************************************)
C7_FindReadOnly ==
    [][\A p \in Procs :
        /\ FindCall(p) => store' = store /\ fs' = fs
        /\ (MainCall(p) /\ res'[p].op = "find") => fs'.content = LoadedText
      ]_vars

C7_Witness ==
    /\ pc[1] = "ready" /\ res[1].op = "find"
    /\ res[1].found = <<>>
    /\ store[1] # EmptyMap
    /\ FileMap(fs) = store[1]
    /\ fs.content # <<>>

(***************************************************************************)
(* C8.  set(name, description) inserts or overwrites only the entry for    *)
(* name: when it returns Ok the mapping maps name to the description just  *)
(* given, the file holds exactly one member for name, with that            *)
(* description, and every other name keeps the description it had.         *)
(***************************************************************************)
C8_SetFrame ==
    [][\A p \in Procs :
        (SetCall(p) /\ res'[p].status = "ok") =>
            LET k == res'[p].key
                v == res'[p].value
                ms == Members(fs'.content).pairs
            IN  /\ DOMAIN store'[p] = (DOMAIN store[p]) \cup {k}
                /\ store'[p][k] = v
                /\ \A x \in (DOMAIN store[p]) \ {k} : store'[p][x] = store[p][x]
                /\ Cardinality({ i \in DOMAIN ms : ms[i][1] = k }) = 1
                /\ \A i \in DOMAIN ms : ms[i][1] = k => ms[i][2] = v
      ]_vars

C8_Witness ==
    /\ pc[1] = "ready" /\ res[1].op = "set" /\ res[1].status = "ok"
    /\ Cardinality(DOMAIN store[1]) = 2
    /\ store[1][res[1].key] = res[1].value
    /\ Len(Members(fs.content).pairs) = 2

(***************************************************************************)
(* C9.  Idempotence of set: a successful set(name, description) right      *)
(* after a successful set of the same name and description leaves the      *)
(* in-memory mapping and the mapping decoded from the file as the first    *)
(* left them.                                                              *)
(***************************************************************************)
C9_SetIdempotent ==
    [][\A p \in Procs :
        (/\ pc[p] = "ready" /\ pc'[p] = "ready"
         /\ res'[p].op = "set" /\ res'[p].again /\ res'[p].status = "ok") =>
            /\ store'[p] = store[p]
            /\ FileOk(fs')
            /\ FileMap(fs') = FileMap(fs)
            /\ FileMap(fs') = store'[p]
      ]_vars

C9_Witness ==
    /\ pc[1] = "ready"
    /\ res[1].op = "set" /\ res[1].again /\ res[1].status = "ok"
    /\ Cardinality(DOMAIN store[1]) = 2
    /\ FileMap(fs) = store[1]

(***************************************************************************)
(* C10.  Store::new on a path whose file is absent or empty never tries to *)
(* parse (it cannot end in a JSON error) and fails only if the             *)
(* environment fails one of its file system calls; when it succeeds the    *)
(* mapping is empty, the parent directory and the file exist, and the      *)
(* file is empty.                                                          *)
(***************************************************************************)
C10_LoadAbsentOrEmpty ==
    [][\A p \in Procs :
        (NewCall(p) /\ (~fs.exists \/ fs.content = <<>>)) =>
            /\ res'[p].status \in {"ok", "io"}
            /\ res'[p].status = "io" => faults' = faults + 1
            /\ res'[p].status = "ok" =>
                /\ pc'[p] = "ready"
                /\ store'[p] = EmptyMap
                /\ fs' = [dir |-> TRUE, exists |-> TRUE, content |-> <<>>]
      ]_vars

C10_Witness ==
    /\ pc[1] = "ready" /\ res[1].op = "new" /\ res[1].status = "ok"
    /\ store[1] = EmptyMap
    /\ fs = [dir |-> TRUE, exists |-> TRUE, content |-> <<>>]
    /\ faults = 0 /\ onlySets /\ expected = EmptyMap

(***************************************************************************)
(* C11 as the claim states it.  Store::new on a file whose text is not     *)
(* empty and is not a JSON object of string to string pairs fails with the *)
(* JSON (decode) error, or with the I/O error of a file system call of the *)
(* load that failed first: in both cases no Store is returned (the process *)
(* stays without one, so no set, find or delete can be called), and the    *)
(* file's text is left as it was.  A run of main on such a file executes   *)
(* no command and exits with code 1.  load takes a failed stat in          *)
(* store_path.exists() for an absent file and calls File::create, which    *)
(* empties the file: the construction then returns Ok with an empty Store, *)
(* and main goes on to the command.                                        *)
(***************************************************************************)
C11_DecodeError ==
    [][\A p \in Procs :
        /\ (NewCall(p) /\ fs.exists /\ ~FileOk(fs)) =>
              /\ res'[p].status \in {"json", "io"}
              /\ res'[p].status = "io" <=> faults' = faults + 1
              /\ res'[p].status = "json" <=> faults' = faults
              /\ pc'[p] = "idle"
              /\ store'[p] = EmptyMap
              /\ fs' = fs
        /\ (MainCall(p) /\ run'[p].path # "panic" /\ fs.exists /\ ~FileOk(fs)) =>
              /\ res'[p].op = "new"
              /\ res'[p].status \in {"json", "io"}
              /\ res'[p].status = "json" <=> faults' = faults
              /\ res'[p].status = "json" => Head(run'[p].stderr) = "JSON error: "
              /\ run'[p].code = 1
              /\ run'[p].stdout = <<>>
              /\ pc'[p] = "idle"
              /\ fs' = fs
      ]_vars

(***************************************************************************)
(* C12.  A run of the find command exits with code 1 with the one message  *)
(* "No matches found." on standard error exactly when its find returned no *)
(* match (nothing is then printed to standard output); when find returned  *)
(* at least one match the run exits with code 0, standard error is empty   *)
(* and standard output has one line "<name> -> <description>" per match,   *)
(* in the order of the result.                                             *)
(***************************************************************************)
C12_FindExitCode ==
    \A p \in Procs :
        run[p].cmd = "find" =>
            /\ (res[p].op = "find" /\ res[p].found = <<>>)
                    <=> (run[p].code = 1 /\ run[p].stderr = <<"No matches found.">>)
            /\ (res[p].op = "find" /\ res[p].found = <<>>) => run[p].stdout = <<>>
            /\ (res[p].op = "find" /\ res[p].found # <<>>) =>
                    /\ run[p].code = 0
                    /\ run[p].stderr = <<>>
                    /\ Len(run[p].stdout) = Len(res[p].found)
                    /\ \A i \in DOMAIN res[p].found :
                          run[p].stdout[i] =
                              res[p].found[i][1] \o <<" -> ">> \o res[p].found[i][2]

C12_Witness ==
    /\ run[1].cmd = "find" /\ run[1].code = 0
    /\ res[1].op = "find" /\ res[1].key = <<"s", "l">>
    /\ Len(res[1].found) = 1
    /\ Cardinality(DOMAIN FileMap(fs)) = 2
    /\ run[1].stdout = << res[1].found[1][1] \o <<" -> ", "S", "\\", "l">> >>

(***************************************************************************)
(* Runs of main.                                                           *)
(***************************************************************************)
OneLine(msg) == msg # <<>> /\ \A i \in DOMAIN msg : msg[i] # "\n"

\* the Store method a command of main calls
CmdOp(name) ==
    CASE name = "remember" -> "set" [] name = "find" -> "find"
      [] name = "forget" -> "delete" [] OTHER -> "none"

\* the run of main of this step failed: its load or its command returned an
\* error, or its find had no match
RunFailed(p) ==
    \/ res'[p].status # "ok"
    \/ res'[p].op = "find" /\ res'[p].found = <<>>

\* a Store exists only through a successful load, and its methods are
\* called only on a Ready Store; a run of main calls the command after the
\* load succeeded, on the mapping loaded, and nothing else; it exits with
\* code 1 and a message when it failed and with code 0 and no message
\* otherwise
LoadFirst(p) ==
    /\ (pc[p] = "idle" /\ pc'[p] = "ready") =>
          res'[p].op = "new" /\ res'[p].status = "ok"
    /\ (/\ res'[p] # res[p]
        /\ res'[p].op \in {"set", "find", "delete"}
        /\ ~MainCall(p)) => pc[p] = "ready"
    /\ (MainCall(p) /\ run'[p].path # "panic") =>
          /\ res'[p].op \in {"new", CmdOp(run'[p].cmd)}
          /\ res'[p].op = "new" =>
                /\ res'[p].status \in {"io", "json"}
                /\ fs'.content = fs.content
          /\ res'[p].op # "new" =>
                /\ FileOk(fs) \/ StatFailed
                /\ fs'.dir /\ fs'.exists
                /\ res'[p].op = "find" =>
                      \A i \in DOMAIN res'[p].found :
                          /\ res'[p].found[i][1] \in DOMAIN LoadedMap
                          /\ res'[p].found[i][2] = LoadedMap[res'[p].found[i][1]]
                /\ (res'[p].op = "set" /\ res'[p].status = "ok") =>
                      FileMap(fs') = Insert(LoadedMap, res'[p].key, res'[p].value)
                /\ (res'[p].op = "delete" /\ res'[p].status = "ok") =>
                      /\ res'[p].key \in DOMAIN LoadedMap
                      /\ FileMap(fs') = Remove(LoadedMap, res'[p].key)
          /\ IF RunFailed(p)
             THEN /\ run'[p].code = 1
                  /\ run'[p].stderr # <<>>
                  /\ run'[p].stdout = <<>>
             ELSE /\ run'[p].code = 0
                  /\ run'[p].stderr = <<>>

(***************************************************************************)
(* C13 as the claim states it: set, find and delete run only after the     *)
(* load has succeeded, and a run whose load or command fails prints a      *)
(* message of a single line to standard error and exits with code 1        *)
(* without another Store call.  The KeyNotFound message of `forget` holds  *)
(* the name as it was given, so for a name with a line break it has more   *)
(* than one line.                                                          *)
(***************************************************************************)
C13_SingleLine ==
    [][\A p \in Procs :
        /\ LoadFirst(p)
        /\ (MainCall(p) /\ run'[p].path # "panic" /\ RunFailed(p)) =>
              OneLine(run'[p].stderr)
      ]_vars

(***************************************************************************)
(* C13 (amended).  A Store exists only through a successful load: a        *)
(* process gets a Ready Store only by Store::new returning Ok, and set,    *)
(* find and delete are called only on a Ready Store.  In a run of main the *)
(* command runs only after the load succeeded, on the mapping loaded, and  *)
(* it is the only Store call after the load.  If the load or the command   *)
(* fails (an error, or a find without a match), the run prints one message *)
(* to standard error and exits with code 1; if the load fails no command   *)
(* is executed.  The message is a single line, except that the KeyNotFound *)
(* message ends with the name as it was given and so has a line break      *)
(* wherever the name has one.  Otherwise the run exits with code 0 and     *)
(* standard error is empty.                                                *)
(***************************************************************************)
C13_LoadFirst ==
    [][\A p \in Procs :
        /\ LoadFirst(p)
        /\ (MainCall(p) /\ run'[p].path # "panic" /\ RunFailed(p)) =>
              IF res'[p].status = "notfound"
              THEN run'[p].stderr =
                       <<"Application error: ", "Key not found: ">> \o res'[p].key
              ELSE OneLine(run'[p].stderr)
      ]_vars

\* a run of `forget` of a name with a line break that is not in the file:
\* the message has two lines
C13_Witness ==
    /\ pc[1] = "idle"
    /\ run[1].cmd = "forget" /\ run[1].code = 1
    /\ res[1].op = "delete" /\ res[1].status = "notfound"
    /\ res[1].key = <<"\n", "\"">>
    /\ ~OneLine(run[1].stderr)
    /\ fs.dir /\ fs.exists /\ fs.content # <<>>

(***************************************************************************)
(* C14 as the claim states it: a run that supplies the override has the    *)
(* same outcome whether or not the default path can be resolved.  main     *)
(* passes the default to unwrap_or as a value, so get_config_dir runs in   *)
(* every run, and it panics when its variable is not set: the run with the *)
(* override and without that variable ends with code 101 before the Store  *)
(* is constructed.                                                         *)
(***************************************************************************)
C14_OverrideIndependent ==
    \A cmd \in Cmds :
        \A ord \in Orders(Target(FileMap(fs), cmd)) :
            main(fs, [override |-> TRUE, home |-> FALSE], cmd, "none", ord, "none", 0)
                = main(fs, [override |-> TRUE, home |-> TRUE], cmd, "none", ord, "none", 0)

(***************************************************************************)
(* C15 as the claim states it: whenever the Store is Ready the file        *)
(* decodes to the in-memory mapping, whatever the calls so far returned.   *)
(* A set or delete whose save fails returns with the mapping changed and   *)
(* the file not, so the two differ while no call is executing.             *)
(***************************************************************************)
C15_AlwaysConsistent ==
    \A p \in Procs :
        pc[p] = "ready" => (FileOk(fs) /\ FileMap(fs) = store[p])

\* process p's step was a set or delete whose save failed
PersistFailed(p) ==
    /\ pc[p] = "ready"
    /\ res'[p].op \in {"set", "delete"}
    /\ res'[p].status = "io"
    /\ faults' = faults + 1

\* the file f decodes to the mapping m
Consistent(f, m) == FileOk(f) /\ FileMap(f) = m

(***************************************************************************)
(* C15 (amended).  In a single-process run the file decodes to the         *)
(* in-memory mapping when the Store is constructed and after every set or  *)
(* delete that returns Ok, and every other call that returns on a Ready    *)
(* Store in which they are equal leaves them equal (a find, a delete that  *)
(* returns KeyNotFound), except a set or delete that fails with an I/O     *)
(* error: after it the two may differ while the Store is Ready and no call *)
(* is executing.                                                           *)
(***************************************************************************)
C15_ConsistentUnlessPersistFailed ==
    [][\A p \in Procs :
        /\ (pc[p] = "idle" /\ pc'[p] = "ready") => Consistent(fs', store'[p])
        /\ (/\ SetCall(p) \/ DeleteCall(p)
            /\ res'[p].status = "ok") => Consistent(fs', store'[p])
        /\ (/\ pc[p] = "ready" /\ pc'[p] = "ready"
            /\ Consistent(fs, store[p])
            /\ ~PersistFailed(p)) => Consistent(fs', store'[p])
      ]_vars

\* after a set whose save failed, a later set succeeded: the file decodes to
\* the mapping again, with the entry of the failed set
C15_Witness ==
    /\ pc[1] = "ready" /\ faults = 1 /\ hist.stats = 0
    /\ res[1].op = "set" /\ res[1].status = "ok"
    /\ Cardinality(DOMAIN store[1]) = 2
    /\ fs.exists /\ FileOk(fs) /\ FileMap(fs) = store[1]

(***************************************************************************)
(* C16 as the claim states it: when save fails inside set or delete the    *)
(* call returns an I/O error, the Store stays Ready, the mapping keeps the *)
(* change and the file keeps its prior content.  fs::write truncates the   *)
(* file when it opens it, so a write that fails after the open leaves the  *)
(* file empty or with the beginning of the new text.                       *)
(***************************************************************************)
C16_FileKeepsPrior ==
    [][\A p \in Procs :
        PersistFailed(p) =>
            /\ pc'[p] = "ready"
            /\ store'[p] = IF res'[p].op = "set"
                           THEN Insert(store[p], res'[p].key, res'[p].value)
                           ELSE Remove(store[p], res'[p].key)
            /\ fs'.content = fs.content
      ]_vars

\* t is the beginning of full, and not all of it
ProperPrefix(t, full) == Len(t) < Len(full) /\ t = SubSeq(full, 1, Len(t))

(***************************************************************************)
(* C16 (amended).  When save fails inside set or delete, the call returns  *)
(* an I/O error carrying the failed step, the Store stays Ready, the       *)
(* mapping keeps the change made by the call (the new entry for set, the   *)
(* removal for delete), and the file holds its prior content or, when the  *)
(* write failed after the file was opened, a proper prefix of the new      *)
(* serialization.  Later calls work on the in-memory mapping: find returns *)
(* its entries, delete tests its names, and a later successful set writes  *)
(* all of it.                                                              *)
(***************************************************************************)
C16_PersistFailure ==
    [][\A p \in Procs :
        /\ PersistFailed(p) =>
            /\ pc'[p] = "ready"
            /\ Call(res'[p].arg[1]) \in {"open", "write"}
            /\ store'[p] = IF res'[p].op = "set"
                           THEN Insert(store[p], res'[p].key, res'[p].value)
                           ELSE Remove(store[p], res'[p].key)
            /\ res'[p].op = "delete" => res'[p].key \in DOMAIN store[p]
            /\ fs'.dir = fs.dir
            /\ IF Call(res'[p].arg[1]) = "open" THEN fs' = fs
               ELSE /\ fs'.exists
                    /\ \E ord \in Orders(store'[p]) :
                          ProperPrefix(fs'.content, Encode(store'[p], ord))
        /\ FindCall(p) =>
            /\ \A i \in DOMAIN res'[p].found :
                  /\ res'[p].found[i][1] \in DOMAIN store[p]
                  /\ res'[p].found[i][2] = store[p][res'[p].found[i][1]]
            /\ res'[p].key = <<>> =>
                  Len(res'[p].found) = Cardinality(DOMAIN store[p])
        /\ DeleteCall(p) =>
              (res'[p].status = "notfound" <=> res'[p].key \notin DOMAIN store[p])
        /\ (SetCall(p) /\ res'[p].status = "ok") =>
            /\ store'[p] = Insert(store[p], res'[p].key, res'[p].value)
            /\ FileMap(fs') = store'[p]
      ]_vars

\* after a set whose save failed, a find returned the entry the file lacks
C16_Witness ==
    /\ pc[1] = "ready" /\ faults = 1
    /\ res[1].op = "find" /\ res[1].key = <<>>
    /\ Len(res[1].found) = 1
    /\ DOMAIN store[1] = {res[1].found[1][1]}
    /\ fs.content = <<"{">>

(***************************************************************************)
(* C19 as the claim states it.  Store::new never rewrites data: it leaves  *)
(* the text of the file as it was (an absent file becomes an empty one),   *)
(* also when it fails and when main only loads or finds.  When it returns  *)
(* Ok the mapping of the new Store is exactly the mapping decoded from the *)
(* file, and constructing again on the file it left returns the same       *)
(* result.  load takes a failed stat in store_path.exists() for an absent  *)
(* file and calls File::create, which empties the existing file.           *)
(***************************************************************************)
C19_LoadIdempotent ==
    [][\A p \in Procs :
        /\ NewCall(p) =>
            /\ fs'.content = fs.content
            /\ fs.exists => fs'.exists
            /\ fs.dir => fs'.dir
            /\ res'[p].status = "ok" =>
                /\ fs'.dir /\ fs'.exists /\ FileOk(fs')
                /\ store'[p] = FileMap(fs')
                /\ store'[p] = FileMap(fs)
                /\ \A again \in {new(fs', "none")} :
                      /\ again.status = "ok"
                      /\ again.store = store'[p]
                      /\ again.fs = fs'
        /\ (MainCall(p) /\ res'[p].op \in {"new", "find"}) =>
              fs'.content = fs.content
      ]_vars

(***************************************************************************)
(* C20.  In a single-process run, if the file's text is empty or a JSON    *)
(* object of string to string pairs, then after any step without an I/O    *)
(* failure (a set, find or delete that returns Ok or KeyNotFound, a        *)
(* construction, a run of main) it still is, for every name and            *)
(* description, so a Store construction on it does not fail with the JSON  *)
(* error.                                                                  *)
(***************************************************************************)
C20_FileStaysDecodable ==
    [][(FileOk(fs) /\ faults' = faults) =>
          /\ FileOk(fs')
          /\ \A p \in Procs :
                (NewCall(p) \/ MainCall(p)) => res'[p].status # "json"
          /\ \A p \in Procs :
                (NewCall(p) /\ res'[p] # res[p]) => res'[p].status = "ok"
      ]_vars

\* a construction succeeded on a file whose name and description need escapes
C20_Witness ==
    /\ pc[1] = "ready" /\ faults = 0
    /\ res[1].op = "new" /\ res[1].status = "ok"
    /\ <<"\n", "\"">> \in DOMAIN store[1]
    /\ store[1][<<"\n", "\"">>] = <<"S", "\\", "l">>
    /\ FileOk(fs) /\ fs.content # <<>>

(***************************************************************************)
(* Steps of the two-process runs.                                          *)
(***************************************************************************)
\* the step changed nothing of the processes other than p
Acted(p) ==
    \A q \in AllProcs \ {p} :
        pc'[q] = pc[q] /\ store'[q] = store[q] /\ res'[q] = res[q]

\* process p was killed inside a save in this step
CrashStep(p) == res'[p].status = "crash" /\ res'[p] # res[p]

\* the save of process p's set or delete returned in this step
SaveDone(p) == pc[p] = "write" /\ pc'[p] = "ready"

\* process p entered fs::write in this step
SaveOpened(p) == pc[p] = "ready" /\ pc'[p] = "write"

\* the file holds exactly the mapping of process p, and no name that only
\* another process holds
FileIsMappingOf(p) ==
    /\ FileOk(fs')
    /\ FileMap(fs') = store'[p]
    /\ \A q \in AllProcs \ {p} :
          \A k \in (DOMAIN store'[q]) \ (DOMAIN store'[p]) :
              k \notin DOMAIN FileMap(fs')

\* nothing tells a process what the other one has done: a set goes on to
\* its save, a delete returns KeyNotFound exactly when the name is not in
\* the process's own mapping, and every save that runs to its end returns Ok
NothingDetected(p) ==
    /\ (pc[p] = "ready" /\ res'[p] # res[p] /\ res'[p].op = "set") =>
          /\ SaveOpened(p)
          /\ store'[p] = Insert(store[p], res'[p].key, res'[p].value)
    /\ (pc[p] = "ready" /\ res'[p] # res[p] /\ res'[p].op = "delete") =>
          IF res'[p].key \in DOMAIN store[p]
          THEN SaveOpened(p) /\ store'[p] = Remove(store[p], res'[p].key)
          ELSE res'[p].status = "notfound" /\ pc'[p] = "ready" /\ fs' = fs
    /\ SaveDone(p) =>
          /\ res'[p].status = "ok" /\ res'[p].op \in {"set", "delete"}
          /\ store'[p] = store[p]

(***************************************************************************)
(* C17.  Two processes on one file, last writer wins.  Nothing is          *)
(* detected: a set or delete of a process goes by its own mapping alone    *)
(* and its save returns Ok, whatever the other process has written since   *)
(* the load.  When a save returns and no other process has changed the     *)
(* file since this save opened it, the file decodes to the full mapping of *)
(* the process that saved: an entry another process holds and this one     *)
(* does not is not in the file.                                            *)
(***************************************************************************)
C17_LastWriterWins ==
    [][\A p \in AllProcs :
        /\ NothingDetected(p)
        /\ (SaveDone(p) /\ wr[p].alone) => FileIsMappingOf(p)
      ]_vars

\* both processes loaded the empty file, each set one name and returned Ok:
\* of the two names set, the file has only the second writer's
C17_Witness ==
    /\ onlySets /\ faults = 0
    /\ pc[1] = "ready" /\ pc[2] = "ready"
    /\ res[1].op = "set" /\ res[1].status = "ok"
    /\ res[2].op = "set" /\ res[2].status = "ok"
    /\ Cardinality(DOMAIN expected) = 2
    /\ DOMAIN store[1] = {res[1].key}
    /\ DOMAIN store[2] = {res[2].key}
    /\ res[1].key # res[2].key
    /\ FileOk(fs) /\ FileMap(fs) = store[2]

\* both processes loaded before any save opened the file, each has since
\* started one save, the save of process p opened the file latest, and the
\* save of the other process has returned
BothLoadedFirst(p) ==
    /\ hist.last = p
    /\ \A q \in AllProcs :
          /\ hist.fresh[q]
          /\ hist.saves[q] = 1
          /\ q # p => pc[q] = "ready"

(***************************************************************************)
(* C17 as the claim states it: when both processes load the file before    *)
(* either saves and each then makes one change, both calls return Ok and   *)
(* the final file, after the save that ran last has returned, decodes to   *)
(* the full mapping of the process that made it.  When the two saves       *)
(* overlap, the writes of the one that opened the file first land in the   *)
(* file the other one is writing: the shorter text of the last writer is   *)
(* followed by the end of the longer text of the first.                    *)
(***************************************************************************)
C17_Original ==
    [][\A p \in AllProcs :
        (SaveDone(p) /\ BothLoadedFirst(p)) =>
            /\ res'[p].status = "ok"
            /\ FileIsMappingOf(p)
      ]_vars

(***************************************************************************)
(* C18.  save overwrites the whole file with the serialization of the full *)
(* mapping and is not atomic.  The open of fs::write empties the file      *)
(* before anything is written, and a save that runs to its end undisturbed *)
(* leaves the JSON text of the writer's whole mapping.  A process killed   *)
(* inside fs::write, undisturbed, leaves a proper prefix of the new text;  *)
(* the next Store construction on that file fails with the JSON error, or, *)
(* when the file was left empty, returns the empty mapping: none of the    *)
(* entries persisted before is loaded.                                     *)
(***************************************************************************)
C18_NonAtomicPersist ==
    [][\A p \in AllProcs :
        /\ SaveOpened(p) => fs'.content = <<>> /\ fs'.exists
        /\ (SaveDone(p) /\ wr[p].alone) =>
              /\ fs'.content = wr[p].text
              /\ \E ord \in Orders(store'[p]) :
                    fs'.content = Encode(store'[p], ord)
        /\ (CrashStep(p) /\ wr[p].alone) =>
              /\ pc[p] = "write" /\ pc'[p] = "idle"
              /\ ProperPrefix(fs'.content, wr[p].text)
              /\ fs'.content # <<>> => ~FileOk(fs')
              /\ \A next \in {new(fs', "none")} :
                    \/ next.status = "json"
                    \/ next.status = "ok" /\ next.store = EmptyMap
        /\ (pc[p] = "read" /\ pc'[p] # "read") =>
              IF FileOk([fs EXCEPT !.content = rd[p].buf])
              THEN pc'[p] = "ready" /\ res'[p].status = "ok"
                   /\ store'[p] = FileMap([fs EXCEPT !.content = rd[p].buf])
              ELSE pc'[p] = "idle" /\ res'[p].status = "json"
      ]_vars

\* process 2 was killed inside the save of a set after a short write, and
\* the construction of process 1 on the file it left failed with the JSON
\* error
C18_Witness ==
    /\ faults = 0
    /\ res[2].status = "crash" /\ res[2].op = "set"
    /\ pc[1] = "idle" /\ res[1].op = "new" /\ res[1].status = "json"
    /\ fs.content = <<"{">>

====
